---- MODULE Spec2Model ----
(***************************************************************************)
(* Pixify backend: one request to POST /api/generate_pixelated_image,      *)
(* from the requires_auth decorator (src/src/auth.py) through the handler  *)
(* (src/src/routes.py) and ImageProcessor.process_image (src/src/utils.py) *)
(* to the response (Spec), the image operations as pure operators          *)
(* (SpecImg), get_secret of src/src/secrets.py as a pure function          *)
(* (SpecSecret), and several requests served at the same time (SpecMany).  *)
(*                                                                         *)
(* Text is a sequence of pieces (each piece a TLA+ string): a piece is     *)
(* either a whitespace character or a maximal run of other characters;     *)
(* numeric text is written digit by digit.                                 *)
(* Values that may be of several Python types are records tagged by a      *)
(* field "kind".                                                           *)
(***************************************************************************)
EXTENDS Integers, Sequences, FiniteSets, TLC

VARIABLES
    pc,             \* position of the request: which step runs next
    request,        \* the incoming HTTP request: method, Authorization header
    environ,        \* os.environ of the process
    run_secrets,    \* the files under /run/secrets
    token,          \* decorated(): token returned by get_token_auth_header
    jwks,           \* decorated(): the JWKS document fetched with urlopen
    verified,       \* the payload jwt.decode returned (kind "none" before)
    current_user,   \* keyword argument the decorator passes to the handler
    data,           \* handler: request.get_json()
    params,         \* handler: prompt, pixel_size, num_colors, size locals
    processor,      \* handler: the ImageProcessor of this request
    calls,          \* calls made to the outside world and stages started
    image_url,      \* process_image: result of generate_image
    image,          \* process_image: result of fetch_image
    smaller_image,  \* pixelate_image: the downscaled intermediate image
    pixelated,      \* process_image: result of pixelate_image
    final_image,    \* process_image: result of reduce_colors
    png,            \* process_image: returned bytes
    raised,         \* the exception that left process_image (kind "none" if none)
    response,       \* the HTTP response (kind "none" until the request ends)
    secret,         \* outcome of a call of get_secret (kind "none" before)
    inflight,       \* the requests being served at the same time, by number
    frames          \* locals of each running process_image call, by frame

vars == <<pc, request, environ, run_secrets, token, jwks, verified, current_user, data,
          params, processor, calls, image_url, image, smaller_image,
          pixelated, final_image, png, raised, response, secret, inflight,
          frames>>

----------------------------------------------------------------------------
(* Bounds of the model *)

\* largest width and height of a modelled image
MaxDim == 5
\* colours are 0..MaxColour (each stands for one RGB triple)
MaxColour == 2

----------------------------------------------------------------------------
(* Python values *)

None == [kind |-> "none"]
Absent == [kind |-> "absent"]
JNull == [kind |-> "null"]
JInt(n) == [kind |-> "int", val |-> n]
\* a JSON number with a fraction, given in tenths (1005 is 100.5)
JFloat(tenths) == [kind |-> "float", val |-> tenths]
JStr(s) == [kind |-> "str", val |-> s]
JList == [kind |-> "list"]

Return(v) == [ok |-> TRUE, val |-> v]
Raise(e) == [ok |-> FALSE, exc |-> e]

\* an exception other than AuthError
Exc(type, msg) == [type |-> type, msg |-> msg, status_code |-> 0]

AuthError(error, status_code) ==
    [type |-> "AuthError", msg |-> error, status_code |-> status_code]

Whitespace == {" ", "\t", "\n"}

RECURSIVE LStrip(_)
LStrip(s) ==
    IF s # <<>> /\ Head(s) \in Whitespace THEN LStrip(Tail(s)) ELSE s

RECURSIVE RStrip(_)
RStrip(s) ==
    IF s # <<>> /\ s[Len(s)] \in Whitespace
    THEN RStrip(SubSeq(s, 1, Len(s) - 1))
    ELSE s

\* str.strip()
Strip(s) == RStrip(LStrip(s))

\* str.split() with no argument: the runs of non-whitespace
Split(s) == SelectSeq(s, LAMBDA p : p \notin Whitespace)

\* str.lower() on the pieces the model uses
Lower(p) ==
    CASE p = "Bearer" -> "bearer"
      [] p = "BEARER" -> "bearer"
      [] p = "Basic" -> "basic"
      [] OTHER -> p

\* whether cause occurs in msg as a contiguous run of pieces
Contains(msg, cause) ==
    \E i \in 0..(Len(msg) - Len(cause)) :
        SubSeq(msg, i + 1, i + Len(cause)) = cause

----------------------------------------------------------------------------
(* HTTP responses *)

NoResponse ==
    [kind |-> "none", status |-> 0, success |-> "absent", error |-> <<>>,
     image_data |-> None]

\* jsonify({'success': False, 'error': error}), status
JsonError(status, error) ==
    [kind |-> "json", status |-> status, success |-> "false", error |-> error,
     image_data |-> None]

\* jsonify({'success': True, 'image_data': image_data}) with the default status
JsonSuccess(image_data) ==
    [kind |-> "json", status |-> 200, success |-> "true", error |-> <<>>,
     image_data |-> image_data]

\* jsonify({'status': 'ok'}) of the OPTIONS branch
JsonOptions ==
    [kind |-> "json", status |-> 200, success |-> "absent", error |-> <<>>,
     image_data |-> None]

\* Flask's answer to an exception no handler is registered for
InternalServerError ==
    [kind |-> "html", status |-> 500, success |-> "absent", error |-> <<>>,
     image_data |-> None]

\* @app.errorhandler(AuthError)
handle_auth_error(ex) == JsonError(ex.status_code, ex.msg)

\* what the application answers when exception e leaves the view function:
\* only AuthError has a registered handler
FlaskDispatch(e) ==
    IF e.type = "AuthError" THEN handle_auth_error(e) ELSE InternalServerError

----------------------------------------------------------------------------
(* Authentication: src/src/auth.py *)

\* The tokens clients present, by name, and what each decodes to.
GoodJwt ==
    [wellformed |-> TRUE, haskid |-> TRUE, kid |-> "kid1", signer |-> "key1",
     expired |-> FALSE, aud |-> "api", iss |-> <<"https://", "tenant", "/">>,
     hassub |-> TRUE, sub |-> "user1"]

JwtOf(t) ==
    CASE t = "tok_user1" -> GoodJwt
      [] t = "tok_user2" -> [GoodJwt EXCEPT !.sub = "user2"]
      [] t = "tok_nosub" -> [GoodJwt EXCEPT !.hassub = FALSE]
      [] t = "tok_nokid" -> [GoodJwt EXCEPT !.haskid = FALSE]
      [] t = "tok_otherkid" -> [GoodJwt EXCEPT !.kid = "kid9", !.signer = "key0"]
      [] t = "tok_forged" -> [GoodJwt EXCEPT !.signer = "attacker"]
      [] t = "tok_expired" -> [GoodJwt EXCEPT !.expired = TRUE]
      [] t = "tok_aud" -> [GoodJwt EXCEPT !.aud = "other-api"]
      [] t = "tok_iss" -> [GoodJwt EXCEPT !.iss = <<"https://", "evil", "/">>]
      [] OTHER -> [GoodJwt EXCEPT !.wellformed = FALSE]

TokenNames ==
    {"tok_user1", "tok_user2", "tok_nosub", "tok_nokid", "tok_otherkid",
     "tok_forged", "tok_expired", "tok_aud", "tok_iss", "garbage"}

\* Authorization header values
AuthHeaders ==
    {None, JStr(<<>>), JStr(<<" ">>), JStr(<<" ", "\t">>),
     JStr(<<"Bearer">>), JStr(<<"Basic", " ", "tok_user1">>),
     JStr(<<"tok_user1">>),
     JStr(<<"Bearer", " ", "tok_user1", " ", "extra">>),
     JStr(<<"bearer", " ", "tok_user1">>),
     JStr(<<" ", "BEARER", " ", " ", "tok_user2", " ">>)}
    \cup {JStr(<<"Bearer", " ", t>>) : t \in TokenNames}

\* JWKS keys: kid, the key pair it is the public half of, and whether the
\* entry carries all of kty, kid, use, n, e
Jwk(kid, keypair, complete) ==
    [kid |-> kid, keypair |-> keypair, complete |-> complete]

\* what urlopen(...).read() followed by json.loads gives
JwksReplies ==
    {[kind |-> "urlerror"], [kind |-> "notjson"], [kind |-> "nokeys"],
     [kind |-> "jwks", keys |-> <<>>],
     [kind |-> "jwks", keys |-> <<Jwk("kid0", "key0", TRUE), Jwk("kid1", "key1", TRUE)>>],
     [kind |-> "jwks", keys |-> <<Jwk("kid1", "key1", FALSE)>>],
     [kind |-> "jwks", keys |-> <<Jwk("kid1", "key0", TRUE)>>]}

\* python truth value of the header: None and '' are false
Truthy(v) == v.kind = "str" /\ v.val # <<>>

get_token_auth_header(auth) ==
    IF ~Truthy(auth)
    THEN Raise(AuthError(<<"Authorization header is missing">>, 401))
    ELSE LET parts == Split(auth.val) IN
         IF Len(parts) = 0
         THEN Raise(Exc("IndexError", <<"list index out of range">>))
         ELSE IF Lower(parts[1]) # "bearer"
         THEN Raise(AuthError(<<"Authorization header must start with Bearer">>, 401))
         ELSE IF Len(parts) = 1
         THEN Raise(AuthError(<<"Token not found">>, 401))
         ELSE IF Len(parts) > 2
         THEN Raise(AuthError(<<"Authorization header must be Bearer token">>, 401))
         ELSE Return(parts[2])

\* environ[name]
EnvironGet(env, name) ==
    IF env[name] = Absent
    THEN Raise(Exc("KeyError", <<name>>))
    ELSE Return(env[name].val)

\* jsonurl = urlopen(...); jwks = json.loads(jsonurl.read())
LoadJwks(reply) ==
    CASE reply.kind = "urlerror" -> Raise(Exc("URLError", <<"urlopen error">>))
      [] reply.kind = "notjson" -> Raise(Exc("JSONDecodeError", <<"Expecting value">>))
      [] OTHER -> Return(reply)

\* jwt.get_unverified_header(token), JWTError turned into AuthError
UnverifiedHeader(t) ==
    IF ~JwtOf(t).wellformed
    THEN Raise(AuthError(<<"Invalid header. Token malformed.">>, 401))
    ELSE Return([haskid |-> JwtOf(t).haskid, kid |-> JwtOf(t).kid])

\* the key search with the kid comparison left out: the first key is taken
FindKey_AnyKid(keys, header) ==
    IF keys = <<>> THEN Return(None)
    ELSE IF ~Head(keys).complete THEN Raise(Exc("KeyError", <<"use">>))
    ELSE Return([kind |-> "key", kid |-> Head(keys).kid,
                 keypair |-> Head(keys).keypair])

\* the loop over jwks["keys"]: the first key with the header's kid, copied
\* field by field; rsa_key stays {} when there is none
RECURSIVE FindKey(_, _)
FindKey(keys, header) ==
    IF keys = <<>> THEN Return(None)
    ELSE IF ~header.haskid THEN Raise(Exc("KeyError", <<"kid">>))
    ELSE IF Head(keys).kid = header.kid
    THEN IF Head(keys).complete
         THEN Return([kind |-> "key", kid |-> Head(keys).kid,
                      keypair |-> Head(keys).keypair])
         ELSE Raise(Exc("KeyError", <<"use">>))
    ELSE FindKey(Tail(keys), header)

\* jwt.decode(token, rsa_key, algorithms=["RS256"], audience, issuer)
JwtDecode(t, rsa_key, audience, issuer) ==
    LET j == JwtOf(t) IN
    IF j.signer # rsa_key.keypair
    THEN Raise(Exc("JWTError", <<"Signature verification failed.">>))
    ELSE IF j.expired
    THEN Raise(Exc("ExpiredSignatureError", <<"Signature has expired.">>))
    ELSE IF j.aud # audience
    THEN Raise(Exc("JWTClaimsError", <<"Invalid audience">>))
    ELSE IF j.iss # issuer
    THEN Raise(Exc("JWTClaimsError", <<"Invalid issuer">>))
    ELSE Return([kind |-> "claims", hassub |-> j.hassub, sub |-> j.sub])

\* the body of the try block of decorated() up to the call of f
VerifyTokenBody(t, doc, domain, audience) ==
    LET header == UnverifiedHeader(t) IN
    IF ~header.ok THEN header
    ELSE IF doc.kind # "jwks" THEN Raise(Exc("KeyError", <<"keys">>))
    ELSE LET rsa_key == FindKey(doc.keys, header.val) IN
         IF ~rsa_key.ok THEN rsa_key
         ELSE IF rsa_key.val = None
         THEN Raise(AuthError(<<"Unable to find appropriate key">>, 401))
         ELSE JwtDecode(t, rsa_key.val, audience, <<"https://", domain, "/">>)

\* payload.get("sub")
SubOf(payload) == IF payload.hassub THEN JStr(payload.sub) ELSE None

\* the except clauses of decorated()
DecoratedExcept(e) ==
    CASE e.type = "ExpiredSignatureError" -> AuthError(<<"Token is expired">>, 401)
      [] e.type = "JWTClaimsError" -> AuthError(<<"Invalid claims">>, 401)
      [] OTHER -> AuthError(<<"Unable to parse authentication token">>, 401)

----------------------------------------------------------------------------
(* Request parsing and validation: src/src/routes.py *)

\* validation limits of the handler
MinPixelSize == 1
MaxPixelSize == 100
MinNumColors == 2
MaxNumColors == 256
DefaultPixelSize == 32
DefaultNumColors == 256

ValidSizes == {<<"256x256">>, <<"512x512">>, <<"1024x1024">>}
DefaultSize == JStr(<<"1024x1024">>)

\* a JSON object with the four keys the handler reads (Absent: key not given)
JObject(prompt, pixel_size, num_colors, size) ==
    [kind |-> "object", prompt |-> prompt, pixel_size |-> pixel_size,
     num_colors |-> num_colors, size |-> size]

PromptValues ==
    {Absent, JStr(<<>>), JStr(<<" ", "\t">>), JStr(<<"cat">>),
     JStr(<<" ", "a", " ", "cat", " ">>), JInt(5), JNull}

PixelSizeValues ==
    {Absent, JInt(0), JInt(1), JInt(2), JInt(100), JInt(101), JInt(-1),
     JStr(<<"a", "b", "c">>), JStr(<<" ", "2", " ">>), JNull, JFloat(1005),
     JFloat(5)}

NumColorsValues ==
    {Absent, JInt(1), JInt(2), JInt(3), JInt(256), JInt(257),
     JStr(<<"a", "b", "c">>), JNull, JFloat(2569)}

SizeValues ==
    {Absent, JStr(<<"256x256">>), JStr(<<"512x512">>), JStr(<<"1024x1024">>),
     JStr(<<"100x100">>), JNull}

\* request bodies: no JSON content type, malformed JSON, or a JSON value
Bodies ==
    {[kind |-> "nojson"], [kind |-> "malformed"], JNull, JList}
    \cup {JObject(p, ps, nc, sz) : p \in PromptValues, ps \in PixelSizeValues,
                                   nc \in NumColorsValues, sz \in SizeValues}

\* request.get_json()
get_json(body) ==
    CASE body.kind = "nojson" ->
            Raise(Exc("UnsupportedMediaType", <<"415 Unsupported Media Type">>))
      [] body.kind = "malformed" ->
            Raise(Exc("BadRequest", <<"400 Bad Request">>))
      [] OTHER -> Return(body)

\* dict.get(key, default), given the value stored under key
DictGet(v, default) == IF v = Absent THEN default ELSE v

Digits == <<"0", "1", "2", "3", "4", "5", "6", "7", "8", "9">>

IsDigit(p) == \E i \in 1..Len(Digits) : Digits[i] = p

DigitVal(p) == (CHOOSE i \in 1..Len(Digits) : Digits[i] = p) - 1

RECURSIVE ParseDigits(_, _)
ParseDigits(s, acc) ==
    IF s = <<>> THEN acc
    ELSE ParseDigits(Tail(s), 10 * acc + DigitVal(Head(s)))

\* int(v) of Python
PyInt(v) ==
    CASE v.kind = "int" -> Return(v.val)
      [] v.kind = "float" ->
            Return(IF v.val >= 0 THEN v.val \div 10 ELSE -((-v.val) \div 10))
      [] v.kind = "str" ->
            LET s == Strip(v.val)
                neg == s # <<>> /\ Head(s) = "-"
                d == IF s # <<>> /\ Head(s) \in {"-", "+"} THEN Tail(s) ELSE s
            IN IF d # <<>> /\ \A i \in 1..Len(d) : IsDigit(d[i])
               THEN Return(IF neg THEN -ParseDigits(d, 0) ELSE ParseDigits(d, 0))
               ELSE Raise(Exc("ValueError",
                              <<"invalid literal for int() with base 10">>))
      [] OTHER ->
            Raise(Exc("TypeError",
                      <<"int() argument must be a string, a bytes-like object or a real number">>))

\* data.get('prompt', '').strip()
GetPrompt(d) ==
    LET v == DictGet(d.prompt, JStr(<<>>)) IN
    IF v.kind = "str" THEN Return(Strip(v.val))
    ELSE Raise(Exc("AttributeError", <<"object has no attribute 'strip'">>))

\* lines 37-42 of the handler: the four locals, or the exception raised
ReadParams(body) ==
    LET j == get_json(body) IN
    IF ~j.ok THEN j
    ELSE IF j.val.kind # "object"
    THEN Raise(Exc("AttributeError", <<"object has no attribute 'get'">>))
    ELSE LET d == j.val
             prompt == GetPrompt(d)
             pixel_size == PyInt(DictGet(d.pixel_size, JInt(DefaultPixelSize)))
             num_colors == PyInt(DictGet(d.num_colors, JInt(DefaultNumColors)))
         IN IF ~prompt.ok THEN prompt
            ELSE IF ~pixel_size.ok THEN pixel_size
            ELSE IF ~num_colors.ok THEN num_colors
            ELSE Return([kind |-> "params", prompt |-> prompt.val,
                         pixel_size |-> pixel_size.val,
                         num_colors |-> num_colors.val,
                         size |-> DictGet(d.size, DefaultSize)])

SizeAccepted(size) == size.kind = "str" /\ size.val \in ValidSizes

\* lines 45-67: the response of the first failing check, None when all pass
Validate(p) ==
    IF p.prompt = <<>>
    THEN JsonError(400, <<"Image prompt is required">>)
    ELSE IF p.pixel_size < MinPixelSize \/ p.pixel_size > MaxPixelSize
    THEN JsonError(400, <<"Pixel size must be between 1 and 100">>)
    ELSE IF p.num_colors < MinNumColors \/ p.num_colors > MaxNumColors
    THEN JsonError(400, <<"Number of colors must be between 2 and 256">>)
    ELSE IF ~SizeAccepted(p.size)
    THEN JsonError(400, <<"Size must be 256x256, 512x512, or 1024x1024">>)
    ELSE None

\* outer except clauses that answer every exception as an invalid parameter
HandlerExcept_InvalidParameter(e) ==
    JsonError(400, <<"Invalid parameter: ">> \o e.msg)

\* the outer except clauses of the handler (lines 92-103)
HandlerExcept(e) ==
    IF e.type = "AuthError"
    THEN JsonError(400, <<"Invalid parameter: ">> \o e.msg)
    ELSE JsonError(500, e.msg)

\* the inner except clause (lines 86-90)
ProcessExcept(e) == JsonError(500, <<"Error generating image: ">> \o e.msg)

----------------------------------------------------------------------------
(* Secrets: src/src/secrets.py *)

\* secret_name.upper(), for the names the model uses
Upper(name) ==
    CASE name = "openai_api_key" -> "OPENAI_API_KEY"
      [] name = "db_password" -> "DB_PASSWORD"
      [] OTHER -> name

\* the state of /run/secrets/<secret_name>: Absent when os.path.exists is
\* false, kind "unreadable" when open() raises OSError, kind "undecodable"
\* when read() meets bytes that are not text, otherwise its text
SecretFile(files, secret_name) ==
    IF secret_name \in DOMAIN files THEN files[secret_name] ELSE Absent

\* os.environ.get(name)
OsEnvironGet(env, name) ==
    IF name \in DOMAIN env THEN env[name] ELSE Absent

\* get_secret(secret_name, env_var_name): env_var_name is None or JStr(name)
get_secret(secret_name, env_var_name, files, env) ==
    LET secret_file == SecretFile(files, secret_name)
        name == IF env_var_name.kind = "none" THEN Upper(secret_name)
                ELSE env_var_name.val
        env_value == OsEnvironGet(env, name)
    IN  IF secret_file.kind = "undecodable"
        THEN Raise(Exc("UnicodeDecodeError", <<"codec can't decode byte">>))
        ELSE IF secret_file.kind = "str" /\ Strip(secret_file.val) # <<>>
        THEN Return(Strip(secret_file.val))
        ELSE IF env_value.kind = "str" /\ env_value.val # <<>>
        THEN Return(env_value.val)
        ELSE Raise(Exc("ValueError", <<"Secret '", secret_name, "' not found. ">>))

get_openai_api_key(files, env) ==
    get_secret("openai_api_key", JStr("OPENAI_API_KEY"), files, env)

----------------------------------------------------------------------------
(* Images: the Pillow operations used by src/src/utils.py and src/src/pixify.py *)

Colours == 0..MaxColour

Max(a, b) == IF a > b THEN a ELSE b

\* an image: data holds the pixels row by row; in mode "P" they are
\* 0-based indexes into palette
Img(mode, width, height, pixels, palette) ==
    [kind |-> "image", mode |-> mode, width |-> width, height |-> height,
     data |-> pixels, palette |-> palette]

\* the pixel at column x, row y (0-based)
Pixel(img, x, y) == img.data[y * img.width + x + 1]

\* the set of pixel values of an image
PixelSet(img) == {img.data[i] : i \in 1..Len(img.data)}

\* the image whose pixel at (x, y) is a*x + b*y + c modulo the number of colours
PatternImage(mode, w, h, a, b, c) ==
    Img(mode, w, h,
        [i \in 1..(w * h) |->
            (a * ((i - 1) % w) + b * ((i - 1) \div w) + c) % (MaxColour + 1)],
        <<>>)

\* the images the pure operations are applied to
Images ==
    {PatternImage("RGB", w, h, a, b, c) :
        w \in 1..MaxDim, h \in 1..MaxDim, a \in Colours, b \in Colours, c \in Colours}

\* resampling that takes the pixel under the left or upper edge of x
SrcIndex_Corner(x, src, dst) == (x * src) \div dst

\* nearest-neighbour source coordinate of output coordinate x when a run of
\* src pixels is resampled to dst pixels: the pixel under the centre of x
SrcIndex(x, src, dst) == ((2 * x + 1) * src) \div (2 * dst)

\* Image.resize(size, Image.Resampling.NEAREST)
Resize(img, w, h) ==
    IF w < 1 \/ h < 1
    THEN Raise(Exc("ValueError", <<"height and width must be > 0">>))
    ELSE Return(Img(img.mode, w, h,
                    [i \in 1..(w * h) |->
                        Pixel(img, SrcIndex((i - 1) % w, img.width, w),
                                   SrcIndex((i - 1) \div w, img.height, h))],
                    img.palette))

\* Image.convert("RGB"): palette indexes become the colours they name; other
\* modes keep their colour channels and lose the rest
ConvertRGB(img) ==
    IF img.mode = "P"
    THEN Img("RGB", img.width, img.height,
             [i \in 1..Len(img.data) |-> img.palette[img.data[i] + 1]], <<>>)
    ELSE Img("RGB", img.width, img.height, img.data, <<>>)

RECURSIVE SortedSeq(_)
SortedSeq(S) ==
    IF S = {} THEN <<>>
    ELSE LET m == CHOOSE x \in S : \A y \in S : x <= y
         IN <<m>> \o SortedSeq(S \ {m})

Dist(a, b) == IF a < b THEN b - a ELSE a - b

\* 0-based index of the palette entry nearest to colour c (the first of them)
Nearest(c, palette) ==
    (CHOOSE i \in 1..Len(palette) :
        /\ \A j \in 1..Len(palette) : Dist(c, palette[i]) <= Dist(c, palette[j])
        /\ \A j \in 1..(i - 1) : Dist(c, palette[j]) > Dist(c, palette[i])) - 1

\* the palettes Image.quantize(num_colors) may build: at least one and at most
\* num_colors entries; which one is the quantization algorithm's choice
Palettes(num_colors) ==
    {S \in SUBSET Colours : S # {} /\ Cardinality(S) <= num_colors}

\* Image.quantize(num_colors) with palette entries pal: a mode "P" image
Quantize(img, num_colors, pal) ==
    IF num_colors < 1 \/ num_colors > 256
    THEN Raise(Exc("ValueError", <<"bad number of colors">>))
    ELSE LET palette == SortedSeq(pal) IN
         Return(Img("P", img.width, img.height,
                    [i \in 1..Len(img.data) |-> Nearest(img.data[i], palette)],
                    palette))

\* pixelation that scales the small image up by pixel_size instead of back to
\* the size of the original
pixelate_image_by_factor(img, pixel_size) ==
    IF pixel_size = 0
    THEN Raise(Exc("ZeroDivisionError", <<"integer division or modulo by zero">>))
    ELSE
    LET new_width == Max(1, img.width \div pixel_size)
        new_height == Max(1, img.height \div pixel_size)
        smaller == Resize(img, new_width, new_height)
    IN IF ~smaller.ok THEN smaller
       ELSE LET out == Resize(smaller.val, new_width * pixel_size,
                              new_height * pixel_size) IN
            IF ~out.ok THEN out
            ELSE Return([smaller_image |-> smaller.val, result |-> out.val])

\* pixelation without the floor of 1, as pixify.pixellate computes new_size
pixelate_image_no_floor(img, pixel_size) ==
    IF pixel_size = 0
    THEN Raise(Exc("ZeroDivisionError", <<"integer division or modulo by zero">>))
    ELSE
    LET smaller == Resize(img, img.width \div pixel_size, img.height \div pixel_size)
    IN IF ~smaller.ok THEN smaller
       ELSE LET out == Resize(smaller.val, img.width, img.height) IN
            IF ~out.ok THEN out
            ELSE Return([smaller_image |-> smaller.val, result |-> out.val])

\* ImageProcessor.pixelate_image: the intermediate and the returned image
pixelate_image(img, pixel_size) ==
    IF pixel_size = 0
    THEN Raise(Exc("ZeroDivisionError", <<"integer division or modulo by zero">>))
    ELSE LET new_width == Max(1, img.width \div pixel_size)
             new_height == Max(1, img.height \div pixel_size)
             smaller == Resize(img, new_width, new_height)
         IN IF ~smaller.ok THEN smaller
            ELSE LET out == Resize(smaller.val, img.width, img.height) IN
                 IF ~out.ok THEN out
                 ELSE Return([smaller_image |-> smaller.val, result |-> out.val])

\* pixify.resize_image(image, new_size)
resize_image(img, w, h) ==
    LET smaller == Resize(img, w, h) IN
    IF ~smaller.ok THEN smaller
    ELSE Resize(smaller.val, img.width, img.height)

\* colour reduction that returns the quantized image without converting it
\* back, as pixify.reduce_colors does
reduce_colors_indexed(img, num_colors, pal) ==
    Quantize(ConvertRGB(img), num_colors, pal)

\* ImageProcessor.reduce_colors, with the palette quantize builds
reduce_colors(img, num_colors, pal) ==
    LET q == Quantize(ConvertRGB(img), num_colors, pal) IN
    IF ~q.ok THEN q ELSE Return(ConvertRGB(q.val))

\* pixify.reduce_colors: the quantized image is returned as it is
pixify_reduce_colors(img, num_colors, pal) ==
    Quantize(ConvertRGB(img), num_colors, pal)

----------------------------------------------------------------------------
(* The pipeline: src/src/utils.py *)

\* replies of the image-generation API to images.generate
GenerateReplies ==
    {[kind |-> "url", url |-> "https://images.example/1.png"],
     [kind |-> "error", type |-> "RateLimitError", cause |-> <<"quota exceeded">>],
     [kind |-> "error", type |-> "APITimeoutError", cause |-> <<"Request timed out.">>],
     [kind |-> "nodata"]}

\* the images the image host serves
UpstreamImages ==
    {PatternImage("RGB", MaxDim, MaxDim, 1, 1, 0),
     PatternImage("RGBA", MaxDim, 2, 1, 0, 0),
     PatternImage("RGB", 1, 1, 0, 0, 1)}

\* replies of the image host to the GET
FetchReplies ==
    {[kind |-> "image", image |-> im] : im \in UpstreamImages}
    \cup {[kind |-> "error", type |-> "HTTPError",
           cause |-> <<"404 Client Error: Not Found for url">>],
          [kind |-> "error", type |-> "Timeout", cause |-> <<"Read timed out.">>],
          [kind |-> "error", type |-> "UnidentifiedImageError",
           cause |-> <<"cannot identify image file">>],
          [kind |-> "error", type |-> "OSError",
           cause |-> <<"image file is truncated">>]}

\* the request pixify.generate_image sends: two images
GenerateCall_TwoImages(prompt, size) ==
    [op |-> "images.generate", prompt |-> prompt, n |-> 2, size |-> size,
     url |-> "", timeout |-> 0]

\* the request generate_image sends: exactly these arguments
GenerateCall(prompt, size) ==
    [op |-> "images.generate", prompt |-> prompt, n |-> 1, size |-> size,
     url |-> "", timeout |-> 0]

\* the request fetch_image sends
GetCall(url) ==
    [op |-> "requests.get", prompt |-> <<>>, n |-> 0, size |-> None,
     url |-> url, timeout |-> 60]

\* the urlopen of decorated()
JwksCall ==
    [op |-> "urlopen", prompt |-> <<>>, n |-> 0, size |-> None,
     url |-> "jwks.json", timeout |-> 0]

\* ImageProcessor.generate_image, given the API's reply
generate_image(reply) ==
    CASE reply.kind = "url" -> Return(reply.url)
      [] reply.kind = "nodata" ->
            Raise(Exc("Exception", <<"Failed to generate image: ",
                                     "list index out of range">>))
      [] OTHER ->
            Raise(Exc("Exception", <<"Failed to generate image: ">> \o reply.cause))

\* the exception types fetch_image catches and wraps
FetchCaught == {"HTTPError", "Timeout", "ConnectionError", "UnidentifiedImageError"}

\* fetch_image reporting a failed fetch by returning None, as
\* pixify.create_image_file_object does
fetch_image_returns_none(reply) ==
    IF reply.kind = "image" THEN Return(ConvertRGB(reply.image))
    ELSE Return(None)

\* ImageProcessor.fetch_image, given the host's reply
fetch_image(reply) ==
    IF reply.kind = "image" THEN Return(ConvertRGB(reply.image))
    ELSE IF reply.type \in FetchCaught
    THEN Raise(Exc("Exception", <<"Failed to fetch image: ">> \o reply.cause))
    ELSE Raise(Exc(reply.type, reply.cause))

\* an ImageProcessor that is built without a key when none is deployed
get_image_processor_keyless(files, env) ==
    LET key == get_openai_api_key(files, env) IN
    Return([kind |-> "ImageProcessor",
            api_key |-> IF key.ok THEN key.val ELSE <<>>])

\* ImageProcessor.__init__ called by get_image_processor()
get_image_processor(files, env) ==
    LET key == get_openai_api_key(files, env) IN
    IF ~key.ok THEN key
    ELSE IF key.val = <<>>
    THEN Raise(Exc("ValueError", <<"OpenAI API key is required">>))
    ELSE Return([kind |-> "ImageProcessor", api_key |-> key.val])

\* final_image.save(img_io, 'PNG'); img_io.getvalue()
EncodePNG(img) == [kind |-> "png", image |-> img]

\* f'data:image/png;base64,{base64.b64encode(image_data)}'
DataUri(bytes) == [kind |-> "datauri", mime |-> "image/png", base64 |-> bytes]

----------------------------------------------------------------------------
(* One request to the protected endpoint *)

Methods == {"POST", "OPTIONS"}

\* where the API key is deployed: the state of /run/secrets/openai_api_key
\* (absent, unreadable, or its text) and the value of OPENAI_API_KEY
KeyDeployments ==
    {[file |-> JStr(<<"sk-file", "\n">>), env |-> Absent],
     [file |-> Absent, env |-> JStr(<<"sk-env">>)],
     [file |-> [kind |-> "unreadable"], env |-> JStr(<<"sk-env">>)],
     [file |-> Absent, env |-> Absent]}

\* the Auth0 settings of the process environment
AuthSettings ==
    {[domain |-> d, audience |-> a] :
        d \in {Absent, JStr("tenant")}, a \in {Absent, JStr("api")}}

NoCalls == [net |-> <<>>, stages |-> <<>>]

StageOrder ==
    <<"generate_image", "fetch_image", "pixelate_image", "reduce_colors", "save">>

Init ==
    /\ pc = "get_token"
    /\ request \in {[method |-> m, authorization |-> h, body |-> Absent] :
                        m \in Methods, h \in AuthHeaders}
    /\ \E a \in AuthSettings, k \in KeyDeployments :
        /\ environ = [AUTH0_DOMAIN |-> a.domain, AUTH0_AUDIENCE |-> a.audience,
                      OPENAI_API_KEY |-> k.env]
        /\ run_secrets = [openai_api_key |-> k.file]
    /\ token = None
    /\ jwks = None
    /\ verified = None
    /\ current_user = Absent
    /\ data = None
    /\ params = None
    /\ processor = None
    /\ calls = NoCalls
    /\ image_url = None
    /\ image = None
    /\ smaller_image = None
    /\ pixelated = None
    /\ final_image = None
    /\ png = None
    /\ raised = None
    /\ response = NoResponse
    /\ secret = None
    /\ inflight = <<>>
    /\ frames = <<>>

AuthVars == <<token, jwks, verified, current_user>>
HandlerVars == <<data, params, processor>>
ImageVars == <<image_url, image, smaller_image, pixelated, final_image, png>>
\* what one request leaves alone: the process environment, the secret files
\* and the state of the other specifications
Fixed == <<environ, run_secrets, secret, inflight, frames>>

\* the request ends with response r
Respond(r) == pc' = "done" /\ response' = r

\* decorated(): token = get_token_auth_header(); runs outside the try block
GetTokenAuthHeader ==
    /\ pc = "get_token"
    /\ LET r == get_token_auth_header(request.authorization) IN
       IF r.ok
       THEN /\ token' = JStr(r.val)
            /\ pc' = "read_config"
            /\ UNCHANGED response
       ELSE /\ Respond(FlaskDispatch(r.exc))
            /\ UNCHANGED token
    /\ UNCHANGED <<request, Fixed, jwks, verified, current_user, HandlerVars,
                   calls, ImageVars, raised>>

\* decorated(): domain = environ["AUTH0_DOMAIN"]; audience = environ[...];
\* still outside the try block
ReadConfig ==
    /\ pc = "read_config"
    /\ LET domain == EnvironGet(environ, "AUTH0_DOMAIN")
           audience == EnvironGet(environ, "AUTH0_AUDIENCE")
       IN IF ~domain.ok THEN Respond(FlaskDispatch(domain.exc))
          ELSE IF ~audience.ok THEN Respond(FlaskDispatch(audience.exc))
          ELSE pc' = "fetch_jwks" /\ UNCHANGED response
    /\ UNCHANGED <<request, Fixed, AuthVars, HandlerVars, calls, ImageVars, raised>>

\* decorated(): the JWKS is fetched and parsed, inside the try block
FetchJWKS ==
    /\ pc = "fetch_jwks"
    /\ \E reply \in JwksReplies :
        LET r == LoadJwks(reply) IN
        /\ calls' = [calls EXCEPT !.net = Append(@, JwksCall)]
        /\ IF r.ok
           THEN /\ jwks' = r.val
                /\ pc' = "verify"
                /\ UNCHANGED response
           ELSE /\ Respond(FlaskDispatch(DecoratedExcept(r.exc)))
                /\ UNCHANGED jwks
    /\ UNCHANGED <<request, Fixed, token, verified, current_user, HandlerVars,
                   ImageVars, raised>>

\* decorated(): header, key search and jwt.decode; on success the handler is
\* called with current_user = payload.get("sub")
VerifyToken ==
    /\ pc = "verify"
    /\ LET r == VerifyTokenBody(token.val, jwks, environ.AUTH0_DOMAIN.val,
                                environ.AUTH0_AUDIENCE.val) IN
       IF r.ok
       THEN /\ verified' = r.val
            /\ current_user' = SubOf(r.val)
            /\ pc' = "handler"
            /\ UNCHANGED response
       ELSE /\ Respond(FlaskDispatch(DecoratedExcept(r.exc)))
            /\ UNCHANGED <<verified, current_user>>
    /\ UNCHANGED <<request, Fixed, token, jwks, HandlerVars, calls, ImageVars, raised>>

\* generate_pixelated_image up to the end of validation (lines 29-67)
ParseAndValidate ==
    /\ pc = "handler"
    /\ IF request.method = "OPTIONS"
       THEN /\ Respond(JsonOptions)
            /\ UNCHANGED <<request, data, params>>
       ELSE \E body \in Bodies :
            LET j == get_json(body)
                r == ReadParams(body)
            IN /\ request' = [request EXCEPT !.body = body]
               /\ data' = IF j.ok THEN j.val ELSE None
               /\ IF ~r.ok
                  THEN Respond(HandlerExcept(r.exc)) /\ UNCHANGED params
                  ELSE /\ params' = r.val
                       /\ IF Validate(r.val) # None
                          THEN Respond(Validate(r.val))
                          ELSE pc' = "construct" /\ UNCHANGED response
    /\ UNCHANGED <<Fixed, AuthVars, processor, calls, ImageVars, raised>>

\* processor = get_image_processor(), inside the inner try block
GetImageProcessor ==
    /\ pc = "construct"
    /\ LET r == get_image_processor(run_secrets, environ) IN
       IF r.ok
       THEN processor' = r.val /\ pc' = "generate" /\ UNCHANGED response
       ELSE Respond(ProcessExcept(r.exc)) /\ UNCHANGED processor
    /\ UNCHANGED <<request, Fixed, AuthVars, data, params, calls, ImageVars, raised>>

\* process_image with pixelation and colour reduction exchanged
After_QuantizeFirst(stage) ==
    CASE stage = "generate" -> "fetch"
      [] stage = "fetch" -> "reduce"
      [] stage = "reduce" -> "pixelate"
      [] stage = "pixelate" -> "encode"
      [] OTHER -> "respond"

\* process_image: the statement that follows each stage's statement
After(stage) ==
    CASE stage = "generate" -> "fetch"
      [] stage = "fetch" -> "pixelate"
      [] stage = "pixelate" -> "reduce"
      [] stage = "reduce" -> "encode"
      [] OTHER -> "respond"

\* a stage of process_image raised e: nothing in process_image catches it,
\* the handler's inner except clause answers
StageRaises(e) ==
    /\ raised' = e
    /\ Respond(ProcessExcept(e))

StageStarts(name, net) ==
    calls' = [net |-> calls.net \o net, stages |-> Append(calls.stages, name)]

\* process_image: image_url = self.generate_image(prompt, size)
GenerateStage ==
    /\ pc = "generate"
    /\ \E reply \in GenerateReplies :
        LET r == generate_image(reply) IN
        /\ StageStarts("generate_image",
                       <<GenerateCall(params.prompt, params.size) @@ [reply |-> reply]>>)
        /\ IF r.ok
           THEN image_url' = JStr(r.val) /\ pc' = After("generate")
                /\ UNCHANGED <<raised, response>>
           ELSE StageRaises(r.exc) /\ UNCHANGED image_url
    /\ UNCHANGED <<request, Fixed, AuthVars, HandlerVars, image, smaller_image,
                   pixelated, final_image, png>>

\* process_image: image = self.fetch_image(image_url)
FetchStage ==
    /\ pc = "fetch"
    /\ \E reply \in FetchReplies :
        LET r == fetch_image(reply) IN
        /\ StageStarts("fetch_image", <<GetCall(image_url.val) @@ [reply |-> reply]>>)
        /\ IF r.ok
           THEN image' = r.val /\ pc' = After("fetch") /\ UNCHANGED <<raised, response>>
           ELSE StageRaises(r.exc) /\ UNCHANGED image
    /\ UNCHANGED <<request, Fixed, AuthVars, HandlerVars, image_url, smaller_image,
                   pixelated, final_image, png>>

\* process_image: pixelated = self.pixelate_image(image, pixel_size)
PixelateStage ==
    /\ pc = "pixelate"
    /\ LET r == pixelate_image(image, params.pixel_size) IN
       /\ StageStarts("pixelate_image", <<>>)
       /\ IF r.ok
          THEN /\ smaller_image' = r.val.smaller_image
               /\ pixelated' = r.val.result
               /\ pc' = After("pixelate")
               /\ UNCHANGED <<raised, response>>
          ELSE StageRaises(r.exc) /\ UNCHANGED <<smaller_image, pixelated>>
    /\ UNCHANGED <<request, Fixed, AuthVars, HandlerVars, image_url, image,
                   final_image, png>>

\* process_image: final_image = self.reduce_colors(pixelated, num_colors)
ReduceStage ==
    /\ pc = "reduce"
    /\ \E pal \in Palettes(params.num_colors) :
        LET r == reduce_colors(pixelated, params.num_colors, pal) IN
        /\ StageStarts("reduce_colors", <<>>)
        /\ IF r.ok
           THEN final_image' = r.val /\ pc' = After("reduce") /\ UNCHANGED <<raised, response>>
           ELSE StageRaises(r.exc) /\ UNCHANGED final_image
    /\ UNCHANGED <<request, Fixed, AuthVars, HandlerVars, image_url, image,
                   smaller_image, pixelated, png>>

\* process_image: the PNG bytes are written and returned
EncodeStage ==
    /\ pc = "encode"
    /\ StageStarts("save", <<>>)
    /\ png' = EncodePNG(final_image)
    /\ pc' = After("encode")
    /\ UNCHANGED <<request, Fixed, AuthVars, HandlerVars, image_url, image,
                   smaller_image, pixelated, final_image, raised, response>>

\* the handler base64-encodes the bytes and answers (lines 79-84)
RespondSuccess ==
    /\ pc = "respond"
    /\ Respond(JsonSuccess(DataUri(png)))
    /\ UNCHANGED <<request, Fixed, AuthVars, HandlerVars, calls, ImageVars, raised>>

Next ==
    \/ GetTokenAuthHeader
    \/ ReadConfig
    \/ FetchJWKS
    \/ VerifyToken
    \/ ParseAndValidate
    \/ GetImageProcessor
    \/ GenerateStage
    \/ FetchStage
    \/ PixelateStage
    \/ ReduceStage
    \/ EncodeStage
    \/ RespondSuccess

Spec == Init /\ [][Next]_vars

----------------------------------------------------------------------------
(* The image operations on their own: each is applied once to an image of  *)
(* Images with arguments drawn from the sets below.                        *)

\* pixel sizes tried: up to one more than the largest dimension
PixelSizes == 0..(MaxDim + 1)

\* intermediate sizes tried by pixify.resize_image
NewSizes == 0..(MaxDim + 1)

\* numbers of colours tried: the valid ones around the number of colours of
\* the model, and the largest valid one
NumColorsTried ==
    {n \in MinNumColors..MaxNumColors : n <= MaxColour + 2} \cup {MaxNumColors}

LibCall(op, pixel_size, w, h, num_colors) ==
    [kind |-> "call", op |-> op, pixel_size |-> pixel_size, new_width |-> w,
     new_height |-> h, num_colors |-> num_colors]

InitImg ==
    /\ pc = "lib"
    /\ request = [method |-> "none", authorization |-> None, body |-> Absent]
    /\ environ = [AUTH0_DOMAIN |-> Absent, AUTH0_AUDIENCE |-> Absent,
                  OPENAI_API_KEY |-> Absent]
    /\ run_secrets = [openai_api_key |-> Absent]
    /\ token = None
    /\ jwks = None
    /\ verified = None
    /\ current_user = Absent
    /\ data = None
    /\ params = None
    /\ processor = None
    /\ calls = NoCalls
    /\ image_url = None
    /\ image \in Images
    /\ smaller_image = None
    /\ pixelated = None
    /\ final_image = None
    /\ png = None
    /\ raised = None
    /\ response = NoResponse
    /\ secret = None
    /\ inflight = <<>>
    /\ frames = <<>>

LibUnchanged ==
    UNCHANGED <<request, Fixed, AuthVars, data, processor, calls, image_url,
                image, png, response>>

\* ImageProcessor.pixelate_image(image, pixel_size)
LibPixelate ==
    /\ pc = "lib"
    /\ \E p \in PixelSizes :
        LET r == pixelate_image(image, p) IN
        /\ params' = LibCall("pixelate_image", p, 0, 0, 0)
        /\ IF r.ok
           THEN /\ smaller_image' = r.val.smaller_image
                /\ pixelated' = r.val.result
                /\ UNCHANGED raised
           ELSE raised' = r.exc /\ UNCHANGED <<smaller_image, pixelated>>
    /\ pc' = "lib_done"
    /\ UNCHANGED final_image
    /\ LibUnchanged

\* pixify.resize_image(image, new_size)
LibResizeImage ==
    /\ pc = "lib"
    /\ \E w \in NewSizes, h \in NewSizes :
        LET r == resize_image(image, w, h) IN
        /\ params' = LibCall("resize_image", 0, w, h, 0)
        /\ IF r.ok
           THEN pixelated' = r.val /\ UNCHANGED raised
           ELSE raised' = r.exc /\ UNCHANGED pixelated
    /\ pc' = "lib_done"
    /\ UNCHANGED <<smaller_image, final_image>>
    /\ LibUnchanged

\* ImageProcessor.reduce_colors(image, num_colors)
LibReduceColors ==
    /\ pc = "lib"
    /\ \E n \in NumColorsTried :
        \E pal \in Palettes(n) :
            LET r == reduce_colors(image, n, pal) IN
            /\ params' = LibCall("reduce_colors", 0, 0, 0, n)
            /\ IF r.ok
               THEN final_image' = r.val /\ UNCHANGED raised
               ELSE raised' = r.exc /\ UNCHANGED final_image
    /\ pc' = "lib_done"
    /\ UNCHANGED <<smaller_image, pixelated>>
    /\ LibUnchanged

\* pixify.reduce_colors(image, num_colors)
LibPixifyReduceColors ==
    /\ pc = "lib"
    /\ \E n \in NumColorsTried :
        \E pal \in Palettes(n) :
            LET r == pixify_reduce_colors(image, n, pal) IN
            /\ params' = LibCall("pixify.reduce_colors", 0, 0, 0, n)
            /\ IF r.ok
               THEN final_image' = r.val /\ UNCHANGED raised
               ELSE raised' = r.exc /\ UNCHANGED final_image
    /\ pc' = "lib_done"
    /\ UNCHANGED <<smaller_image, pixelated>>
    /\ LibUnchanged

\* pixelate_image applied to its own result with the same pixel_size
LibPixelateAgain ==
    /\ pc = "lib_done"
    /\ params.op = "pixelate_image"
    /\ raised = None
    /\ LET r == pixelate_image(pixelated, params.pixel_size) IN
       IF r.ok
       THEN final_image' = r.val.result /\ UNCHANGED raised
       ELSE raised' = r.exc /\ UNCHANGED final_image
    /\ pc' = "lib_twice"
    /\ UNCHANGED <<params, smaller_image, pixelated>>
    /\ LibUnchanged

NextImg ==
    \/ LibPixelate
    \/ LibPixelateAgain
    \/ LibResizeImage
    \/ LibReduceColors
    \/ LibPixifyReduceColors

SpecImg == InitImg /\ [][NextImg]_vars

----------------------------------------------------------------------------
(* Properties *)

\* the decorator verified the token and called the handler
Authenticated == verified.kind = "claims"

\* the request was an authenticated POST whose body the handler read, and it
\* has been answered
PostAnswered ==
    pc = "done" /\ request.method = "POST" /\ Authenticated
    /\ request.body.kind # "absent"

\* the image processor was neither constructed nor used
ProcessorUntouched ==
    /\ processor = None
    /\ calls.stages = <<>>
    /\ \A i \in 1..Len(calls.net) :
        calls.net[i].op \notin {"images.generate", "requests.get"}

PromptEmptyAfterTrim(b) ==
    LET v == DictGet(b.prompt, JStr(<<>>)) IN
    v.kind = "str" /\ Strip(v.val) = <<>>

\* a JSON number outside lo..hi
NumberOutside(v, lo, hi) ==
    \/ v.kind = "int" /\ (v.val < lo \/ v.val > hi)
    \/ v.kind = "float" /\ (v.val < 10 * lo \/ v.val > 10 * hi)

SizeNotAllowed(b) ==
    b.size.kind # "absent" /\ ~(b.size.kind = "str" /\ b.size.val \in ValidSizes)

\* the body has one of the four faults validation is there to reject
Offending(b) ==
    /\ b.kind = "object"
    /\ \/ PromptEmptyAfterTrim(b)
       \/ NumberOutside(b.pixel_size, MinPixelSize, MaxPixelSize)
       \/ NumberOutside(b.num_colors, MinNumColors, MaxNumColors)
       \/ SizeNotAllowed(b)

\* C1: every authenticated POST whose prompt is empty after trimming, whose
\* pixel_size is outside [1,100], whose num_colors is outside [2,256] or whose
\* size is not one of the three allowed is answered 400 with success=false and
\* an error message, and the image processor is never constructed or invoked.
C1_ValidationRejects ==
    (PostAnswered /\ Offending(request.body)) =>
        /\ response.status = 400
        /\ response.success = "false"
        /\ response.error # <<>>
        /\ ProcessorUntouched

\* C3: every failure of an authentication step (the handler was never
\* called) is answered with status 401.
C3_AuthFailureIs401 ==
    (pc = "done" /\ ~Authenticated) => response.status = 401

\* the body is a GenerationRequest: an object with a non-blank string prompt,
\* an integer pixel_size in 1..100 and num_colors in 2..256 (or their
\* defaults) and an allowed size (or its default)
ValidGenerationRequest(b) ==
    /\ b.kind = "object"
    /\ b.prompt.kind = "str" /\ Strip(b.prompt.val) # <<>>
    /\ \/ b.pixel_size.kind = "absent"
       \/ b.pixel_size.kind = "int" /\ b.pixel_size.val \in MinPixelSize..MaxPixelSize
    /\ \/ b.num_colors.kind = "absent"
       \/ b.num_colors.kind = "int" /\ b.num_colors.val \in MinNumColors..MaxNumColors
    /\ ~SizeNotAllowed(b)

\* C10: every authenticated request whose payload is not a valid
\* GenerationRequest is answered with status 400, never 500.
C10_InvalidPayloadIs400 ==
    (PostAnswered /\ ~ValidGenerationRequest(request.body)) =>
        response.status = 400

\* the handler, or anything it does, has started
HandlerStarted ==
    \/ current_user.kind # "absent"
    \/ pc \in {"handler", "construct", "generate", "fetch", "pixelate", "reduce",
               "encode", "respond"}
    \/ request.body.kind # "absent"
    \/ data # None \/ params # None \/ processor # None
    \/ calls.stages # <<>>
    \/ \E i \in 1..Len(calls.net) :
        calls.net[i].op \in {"images.generate", "requests.get"}

\* the bearer token of the Authorization header was extracted and decodes
\* against a key of the fetched JWKS with its kid, for the configured
\* audience and issuer
TokenVerified ==
    /\ request.authorization.kind = "str"
    /\ LET parts == Split(request.authorization.val) IN
        /\ Len(parts) = 2
        /\ Lower(parts[1]) = "bearer"
        /\ token = JStr(parts[2])
    /\ jwks.kind = "jwks"
    /\ environ.AUTH0_DOMAIN.kind = "str" /\ environ.AUTH0_AUDIENCE.kind = "str"
    /\ LET j == JwtOf(token.val) IN
        /\ j.wellformed /\ j.haskid /\ ~j.expired
        /\ \E i \in 1..Len(jwks.keys) :
            jwks.keys[i].kid = j.kid /\ jwks.keys[i].keypair = j.signer
        /\ j.aud = environ.AUTH0_AUDIENCE.val
        /\ j.iss = <<"https://", environ.AUTH0_DOMAIN.val, "/">>
        /\ verified.kind = "claims"
        /\ current_user = (IF j.hassub THEN JStr(j.sub) ELSE None)

\* C2: the handler body (validation, generation call, fetch) runs only after
\* the bearer token was extracted and verified against a JWKS key with
\* matching kid, audience and issuer, and current_user is the token's sub.
C2_HandlerOnlyAfterVerification == HandlerStarted => TokenVerified

\* a request of user2 went through the whole handler
C2_Witness ==
    pc = "done" /\ response.status = 200 /\ response.success = "true"
    /\ current_user = JStr("user2")

\* the results of the five stages of process_image, in order
StageOutputs == <<image_url, image, pixelated, final_image, png>>

\* the step about to run, as a position in StageOrder (0: not in process_image)
StageAt(p) ==
    CASE p = "generate" -> 1
      [] p = "fetch" -> 2
      [] p = "pixelate" -> 3
      [] p = "reduce" -> 4
      [] p = "encode" -> 5
      [] p = "respond" -> 6
      [] OTHER -> 0

\* C4: process_image runs generate_image, fetch_image, pixelate_image,
\* reduce_colors, PNG encode in that order; a stage starts only after the one
\* before returned, and works on its result; when a stage raises, no later
\* stage runs, the exception reaches the caller unchanged and no PNG bytes
\* are returned.
C4_StagesInOrder ==
    LET n == Len(calls.stages) IN
    /\ n <= Len(StageOrder)
    /\ calls.stages = SubSeq(StageOrder, 1, n)
    /\ \A k \in 1..Len(StageOrder) :
        /\ StageOutputs[k] # None => n >= k
        /\ (n > k) => StageOutputs[k] # None
    /\ StageAt(pc) > 0 =>
        /\ n = StageAt(pc) - 1
        /\ \A k \in 1..n : StageOutputs[k] # None
    /\ pixelated # None =>
        /\ pixelate_image(image, params.pixel_size).ok
        /\ pixelated = pixelate_image(image, params.pixel_size).val.result
    /\ final_image # None =>
        \E pal \in Palettes(params.num_colors) :
            final_image = reduce_colors(pixelated, params.num_colors, pal).val
    /\ png # None => png = EncodePNG(final_image)
    /\ raised # None =>
        /\ n >= 1
        /\ StageOutputs[n] = None
        /\ png = None
        /\ pc = "done"
        /\ response = JsonError(500, <<"Error generating image: ">> \o raised.msg)
    /\ (response.status = 200 /\ request.method = "POST") =>
        /\ raised = None
        /\ n = Len(StageOrder)
        /\ response.image_data = DataUri(png)

\* the pipeline stopped at the fetch: later stages never ran
C4_Witness ==
    /\ raised # None
    /\ calls.stages = <<"generate_image", "fetch_image">>
    /\ image_url # None /\ image = None /\ pixelated = None

\* the underlying cause of a failed upstream reply
CauseOf(reply) ==
    IF reply.kind = "nodata" THEN <<"list index out of range">> ELSE reply.cause

PipelineCalls ==
    {i \in 1..Len(calls.net) :
        calls.net[i].op \in {"images.generate", "requests.get"}}

FailedCalls ==
    {i \in PipelineCalls : calls.net[i].reply.kind \in {"error", "nodata"}}

\* C5: when the generation call or the image fetch fails, the request is
\* answered with a JSON 500, success=false and an error message containing
\* the text of the cause; never a 200 with image data.
C5_UpstreamFailureIs500 ==
    \A i \in FailedCalls :
        /\ pc = "done"
        /\ response.kind = "json"
        /\ response.status = 500
        /\ response.success = "false"
        /\ Contains(response.error, CauseOf(calls.net[i].reply))
        /\ response.image_data = None

\* the image host answered 404
C5_Witness ==
    \E i \in FailedCalls :
        /\ calls.net[i].op = "requests.get"
        /\ calls.net[i].reply.type = "HTTPError"
        /\ response.status = 500

\* C6: no retries: at most one call of the generation API, for one image at
\* the validated size, at most one GET of the image URL with timeout 60, and
\* no network call after a failed one.
C6_NoRetries ==
    LET gens == {i \in PipelineCalls : calls.net[i].op = "images.generate"}
        gets == {i \in PipelineCalls : calls.net[i].op = "requests.get"}
    IN /\ Cardinality(gens) <= 1
       /\ Cardinality(gets) <= 1
       /\ \A i \in gens :
            /\ calls.net[i].n = 1
            /\ calls.net[i].size = params.size
            /\ SizeAccepted(calls.net[i].size)
            /\ calls.net[i].prompt = params.prompt
       /\ \A i \in gets :
            /\ calls.net[i].timeout = 60
            /\ \E g \in gens : g < i /\ calls.net[g].reply.kind = "url"
                               /\ calls.net[i].url = calls.net[g].reply.url
       /\ \A i \in FailedCalls : i = Len(calls.net)

\* both calls were made, once each, and the request succeeded
C6_Witness ==
    /\ pc = "done" /\ response.status = 200
    /\ Cardinality(PipelineCalls) = 2

LibDone(op) == pc = "lib_done" /\ params.op = op

SameSize(a, b) ==
    /\ a.width = b.width
    /\ a.height = b.height
    /\ Len(a.data) = b.width * b.height

\* C7: for an image of at least 1x1 and pixel_size >= 1, pixelate_image
\* returns an image of exactly the input's width and height; so does
\* pixify.resize_image for every intermediate size of at least 1x1.
C7_PixelationKeepsSize ==
    /\ (LibDone("pixelate_image") /\ params.pixel_size >= 1) =>
        /\ raised = None
        /\ pixelated # None
        /\ SameSize(pixelated, image)
    /\ (LibDone("resize_image") /\ params.new_width >= 1 /\ params.new_height >= 1) =>
        /\ raised = None
        /\ pixelated # None
        /\ SameSize(pixelated, image)

\* an image whose width is not a multiple of the pixel size
C7_Witness ==
    /\ LibDone("pixelate_image")
    /\ params.pixel_size = 2 /\ image.width = 3
    /\ pixelated # None /\ pixelated.width = 3

\* b is a resampled to b's size, every pixel of b being the pixel of a its
\* centre falls in
NearestSample(a, b) ==
    \A x \in 0..(b.width - 1), y \in 0..(b.height - 1) :
        \E sx \in 0..(a.width - 1), sy \in 0..(a.height - 1) :
            /\ 2 * sx * b.width <= (2 * x + 1) * a.width
            /\ (2 * x + 1) * a.width < 2 * (sx + 1) * b.width
            /\ 2 * sy * b.height <= (2 * y + 1) * a.height
            /\ (2 * y + 1) * a.height < 2 * (sy + 1) * b.height
            /\ Pixel(b, x, y) = Pixel(a, sx, sy)

\* width // pixel_size, floored at 1
BlocksAlong(dim, pixel_size) ==
    IF pixel_size > dim THEN 1
    ELSE CHOOSE q \in 1..dim : q * pixel_size <= dim /\ dim < (q + 1) * pixel_size

\* C8: pixelate_image downsamples to (max(1, width // pixel_size),
\* max(1, height // pixel_size)) and upsamples to the original size, both by
\* nearest neighbour; a pixel_size larger than a dimension collapses it to a
\* single block and the operation succeeds.
C8_PixelateDownThenUp ==
    (LibDone("pixelate_image") /\ params.pixel_size >= 1) =>
        /\ raised = None
        /\ smaller_image # None /\ pixelated # None
        /\ smaller_image.width = BlocksAlong(image.width, params.pixel_size)
        /\ smaller_image.height = BlocksAlong(image.height, params.pixel_size)
        /\ Len(smaller_image.data) = smaller_image.width * smaller_image.height
        /\ NearestSample(image, smaller_image)
        /\ NearestSample(smaller_image, pixelated)

\* a pixel size larger than the width
C8_Witness ==
    /\ LibDone("pixelate_image")
    /\ params.pixel_size > image.width /\ image.height >= params.pixel_size
    /\ smaller_image # None /\ smaller_image.width = 1
    /\ pixelated # None

\* C9: for an RGB image and num_colors in 2..256, reduce_colors returns an
\* image with at most num_colors distinct colours, of the input's size, in
\* RGB mode (not indexed).
C9_ReduceColors ==
    LibDone("reduce_colors") =>
        /\ raised = None
        /\ final_image # None
        /\ final_image.mode = "RGB"
        /\ final_image.palette = <<>>
        /\ SameSize(final_image, image)
        /\ Cardinality(PixelSet(final_image)) <= params.num_colors

\* an image of three colours reduced to two
C9_Witness ==
    /\ LibDone("reduce_colors")
    /\ params.num_colors = 2
    /\ Cardinality(PixelSet(image)) = 3
    /\ final_image # None /\ Cardinality(PixelSet(final_image)) = 2

----------------------------------------------------------------------------
(* get_secret as a pure function: src/src/secrets.py *)

SecretNames == {"openai_api_key", "db_password"}

\* the env_var_name argument: omitted (None) or given
EnvVarNames == {None, JStr("OPENAI_API_KEY"), JStr("MY_KEY")}

\* what /run/secrets/openai_api_key can be; /run/secrets/db_password is absent
SecretFileStates ==
    {Absent, [kind |-> "unreadable"], [kind |-> "undecodable"], JStr(<<>>),
     JStr(<<" ", "\n">>), JStr(<<" ", "sk-file", "\n">>)}

\* what an environment variable can be: unset, empty, or text
EnvValues == {Absent, JStr(<<>>), JStr(<<"sk-env">>), JStr(<<" ">>)}

InitSecret ==
    /\ pc = "secret"
    /\ request = [method |-> "none", authorization |-> None, body |-> Absent]
    /\ run_secrets \in [{"openai_api_key"} -> SecretFileStates]
    /\ environ \in [{"OPENAI_API_KEY", "DB_PASSWORD"} -> EnvValues]
    /\ token = None
    /\ jwks = None
    /\ verified = None
    /\ current_user = Absent
    /\ data = None
    /\ params = None
    /\ processor = None
    /\ calls = NoCalls
    /\ image_url = None
    /\ image = None
    /\ smaller_image = None
    /\ pixelated = None
    /\ final_image = None
    /\ png = None
    /\ raised = None
    /\ response = NoResponse
    /\ secret = None
    /\ inflight = <<>>
    /\ frames = <<>>

\* one call get_secret(secret_name, env_var_name)
GetSecret ==
    /\ pc = "secret"
    /\ \E secret_name \in SecretNames, env_var_name \in EnvVarNames :
        secret' = [kind |-> "called", secret_name |-> secret_name,
                   env_var_name |-> env_var_name,
                   result |-> get_secret(secret_name, env_var_name,
                                         run_secrets, environ)]
    /\ pc' = "secret_done"
    /\ UNCHANGED <<request, environ, run_secrets, AuthVars, HandlerVars, calls,
                   ImageVars, raised, response, inflight, frames>>

NextSecret == GetSecret

SpecSecret == InitSecret /\ [][NextSecret]_vars

\* ValueError and its subclasses
ValueErrors == {"ValueError", "UnicodeDecodeError"}

\* the environment variable a call of get_secret falls back to
FallbackVar(call) ==
    IF call.env_var_name.kind = "none" THEN Upper(call.secret_name)
    ELSE call.env_var_name.val

\* C11: get_secret returns the stripped content of /run/secrets/<secret_name>
\* when that file exists, is readable and is non-empty after stripping;
\* otherwise it returns the value of the environment variable (env_var_name,
\* or the upper-cased secret_name when env_var_name is None) when that is set
\* and non-empty; otherwise it raises ValueError; it never returns an empty
\* string.
C11_GetSecretTwoSources ==
    secret.kind = "called" =>
        LET f == SecretFile(run_secrets, secret.secret_name)
            e == OsEnvironGet(environ, FallbackVar(secret))
            r == secret.result
        IN  /\ IF f.kind = "str" /\ Strip(f.val) # <<>>
               THEN r.ok /\ r.val = Strip(f.val)
               ELSE IF e.kind = "str" /\ e.val # <<>>
               THEN r.ok /\ r.val = e.val
               ELSE ~r.ok /\ r.exc.type \in ValueErrors
            /\ r.ok => r.val # <<>>

----------------------------------------------------------------------------
(* The API credential: src/src/utils.py, src/src/routes.py *)

\* neither /run/secrets/openai_api_key nor OPENAI_API_KEY is there
KeyAbsent ==
    /\ SecretFile(run_secrets, "openai_api_key").kind = "absent"
    /\ OsEnvironGet(environ, "OPENAI_API_KEY").kind = "absent"

\* an authenticated POST that passed validation and has been answered
AcceptedAndAnswered ==
    /\ PostAnswered
    /\ ReadParams(request.body).ok
    /\ Validate(ReadParams(request.body).val) = None

\* the 500 answer of the inner except clause to the missing-secret ValueError
MissingSecretResponse ==
    ProcessExcept(get_openai_api_key(run_secrets, environ).exc)

----------------------------------------------------------------------------
(* Every request is answered: src/src/routes.py, src/src/auth.py *)

ResponseStatuses == {200, 400, 401, 500}

\* the exceptions raised in the handler after authentication: by reading the
\* payload (lines 37-42), by constructing the ImageProcessor (line 71), or by
\* a stage of process_image (lines 72-77)
HandlerExceptions ==
    (IF PostAnswered /\ ~ReadParams(request.body).ok
     THEN {ReadParams(request.body).exc} ELSE {})
    \cup (IF AcceptedAndAnswered /\ ~get_image_processor(run_secrets, environ).ok
          THEN {get_image_processor(run_secrets, environ).exc} ELSE {})
    \cup (IF raised # None THEN {raised} ELSE {})

\* the request ends with one response: there is a response exactly when the
\* request is done, nothing runs after it, and before it some step can run
OneResponse ==
    /\ (pc = "done") <=> (response.kind # "none")
    /\ (pc = "done") <=> ~ENABLED Next

----------------------------------------------------------------------------
(* Concurrent requests: src/src/routes.py, src/src/utils.py *)

\* number of requests served at the same time
NumRequests == 2

RequestIds == 1..NumRequests

\* one request together with the replies the outside world gives it
RequestInput(method, authorization, body, generate_reply, fetch_reply, palette) ==
    [method |-> method, authorization |-> authorization, body |-> body,
     jwks_reply |-> [kind |-> "jwks",
                     keys |-> <<Jwk("kid0", "key0", TRUE), Jwk("kid1", "key1", TRUE)>>],
     generate_reply |-> generate_reply, fetch_reply |-> fetch_reply,
     palette |-> palette]

UrlReply == [kind |-> "url", url |-> "https://images.example/1.png"]

ImageReply(im) == [kind |-> "image", image |-> im]

\* requests that fail at each step, and two that succeed on different images
\* with different parameters
ConcurrentInputs ==
    {RequestInput("POST", None, JNull, UrlReply,
                  ImageReply(PatternImage("RGB", 1, 1, 0, 0, 1)), {0}),
     RequestInput("POST", JStr(<<"Bearer", " ", "tok_user1">>),
                  JObject(JStr(<<" ">>), Absent, Absent, Absent), UrlReply,
                  ImageReply(PatternImage("RGB", 1, 1, 0, 0, 1)), {0}),
     RequestInput("POST", JStr(<<"Bearer", " ", "tok_user1">>),
                  JObject(JStr(<<"cat">>), JInt(2), JInt(2), Absent),
                  [kind |-> "error", type |-> "RateLimitError",
                   cause |-> <<"quota exceeded">>],
                  ImageReply(PatternImage("RGB", 1, 1, 0, 0, 1)), {0}),
     RequestInput("POST", JStr(<<"Bearer", " ", "tok_user2">>),
                  JObject(JStr(<<"cat">>), JInt(2), JInt(2), Absent), UrlReply,
                  [kind |-> "error", type |-> "HTTPError",
                   cause |-> <<"404 Client Error: Not Found for url">>], {0}),
     RequestInput("POST", JStr(<<"Bearer", " ", "tok_user1">>),
                  JObject(JStr(<<"cat">>), JInt(2), JInt(2), Absent), UrlReply,
                  ImageReply(PatternImage("RGB", MaxDim, MaxDim, 1, 1, 0)), {0, 1}),
     RequestInput("POST", JStr(<<"Bearer", " ", "tok_user2">>),
                  JObject(JStr(<<"dog">>), JInt(1), JInt(3), Absent), UrlReply,
                  ImageReply(PatternImage("RGBA", MaxDim, 2, 1, 0, 0)), {1, 2}),
     RequestInput("OPTIONS", JStr(<<"Bearer", " ", "tok_user1">>),
                  JNull, UrlReply,
                  ImageReply(PatternImage("RGB", 1, 1, 0, 0, 1)), {0})}

\* the requires_auth decorator up to the call of the handler: the keyword
\* argument current_user, or the response of the failed step
Decorated(inp, env) ==
    LET t == get_token_auth_header(inp.authorization)
        domain == EnvironGet(env, "AUTH0_DOMAIN")
        audience == EnvironGet(env, "AUTH0_AUDIENCE")
        k == LoadJwks(inp.jwks_reply)
    IN  IF ~t.ok THEN [ok |-> FALSE, response |-> FlaskDispatch(t.exc)]
        ELSE IF ~domain.ok THEN [ok |-> FALSE, response |-> FlaskDispatch(domain.exc)]
        ELSE IF ~audience.ok
        THEN [ok |-> FALSE, response |-> FlaskDispatch(audience.exc)]
        ELSE IF ~k.ok
        THEN [ok |-> FALSE, response |-> FlaskDispatch(DecoratedExcept(k.exc))]
        ELSE LET v == VerifyTokenBody(t.val, k.val, env.AUTH0_DOMAIN.val,
                                      env.AUTH0_AUDIENCE.val)
             IN  IF ~v.ok
                 THEN [ok |-> FALSE, response |-> FlaskDispatch(DecoratedExcept(v.exc))]
                 ELSE [ok |-> TRUE, current_user |-> SubOf(v.val)]

\* the locals of one process_image call
EmptyFrame ==
    [image_url |-> None, image |-> None, pixelated |-> None, final_image |-> None,
     png |-> None]

\* every call keeps its locals in the one frame all calls share
Frame_Shared(i) == 1

\* the frame of the process_image call of request i: each call has its own
Frame(i) == i

\* the state of a request that has just arrived
Arrived(inp) ==
    [input |-> inp, pc |-> "auth", current_user |-> Absent, params |-> None,
     processor |-> None, response |-> NoResponse]

InitMany ==
    /\ pc = "many"
    /\ request = [method |-> "none", authorization |-> None, body |-> Absent]
    /\ environ = [AUTH0_DOMAIN |-> JStr("tenant"), AUTH0_AUDIENCE |-> JStr("api"),
                  OPENAI_API_KEY |-> Absent]
    /\ run_secrets \in {[openai_api_key |-> JStr(<<"sk-file", "\n">>)],
                         [openai_api_key |-> Absent]}
    /\ token = None
    /\ jwks = None
    /\ verified = None
    /\ current_user = Absent
    /\ data = None
    /\ params = None
    /\ processor = None
    /\ calls = NoCalls
    /\ image_url = None
    /\ image = None
    /\ smaller_image = None
    /\ pixelated = None
    /\ final_image = None
    /\ png = None
    /\ raised = None
    /\ response = NoResponse
    /\ secret = None
    /\ inflight \in [RequestIds -> {Arrived(inp) : inp \in ConcurrentInputs}]
    /\ frames = [f \in {Frame(i) : i \in RequestIds} |-> EmptyFrame]

\* what the steps of the concurrent requests leave alone
ManyUnchanged ==
    UNCHANGED <<pc, request, environ, run_secrets, AuthVars, HandlerVars, calls,
                ImageVars, raised, response, secret>>

\* request i ends with response r
Answer(i, r) ==
    inflight' = [inflight EXCEPT ![i].pc = "done", ![i].response = r]

\* request i goes on to step next
Goto(i, next) == inflight' = [inflight EXCEPT ![i].pc = next]

\* requires_auth for request i
ManyAuth ==
    /\ \E i \in RequestIds :
        /\ inflight[i].pc = "auth"
        /\ LET a == Decorated(inflight[i].input, environ) IN
           IF a.ok
           THEN inflight' = [inflight EXCEPT ![i].pc = "validate",
                                             ![i].current_user = a.current_user]
           ELSE Answer(i, a.response)
    /\ UNCHANGED frames
    /\ ManyUnchanged

\* the handler of request i up to the end of validation
ManyValidate ==
    /\ \E i \in RequestIds :
        /\ inflight[i].pc = "validate"
        /\ LET inp == inflight[i].input
               r == ReadParams(inp.body)
           IN IF inp.method = "OPTIONS" THEN Answer(i, JsonOptions)
              ELSE IF ~r.ok THEN Answer(i, HandlerExcept(r.exc))
              ELSE IF Validate(r.val) # None THEN Answer(i, Validate(r.val))
              ELSE inflight' = [inflight EXCEPT ![i].pc = "construct",
                                                ![i].params = r.val]
    /\ UNCHANGED frames
    /\ ManyUnchanged

\* request i constructs its ImageProcessor
ManyConstruct ==
    /\ \E i \in RequestIds :
        /\ inflight[i].pc = "construct"
        /\ LET r == get_image_processor(run_secrets, environ) IN
           IF r.ok
           THEN inflight' = [inflight EXCEPT ![i].pc = "generate",
                                             ![i].processor = r.val]
           ELSE Answer(i, ProcessExcept(r.exc))
    /\ UNCHANGED frames
    /\ ManyUnchanged

\* a stage of the process_image call of request i: r is what the stage
\* returned or raised, local the variable its value is assigned to
ManyStage(i, stage, r, local, value) ==
    IF r.ok
    THEN /\ frames' = [frames EXCEPT ![Frame(i)][local] = value]
         /\ Goto(i, After(stage))
    ELSE /\ Answer(i, ProcessExcept(r.exc))
         /\ UNCHANGED frames

ManyGenerate ==
    /\ \E i \in RequestIds :
        /\ inflight[i].pc = "generate"
        /\ LET r == generate_image(inflight[i].input.generate_reply) IN
           ManyStage(i, "generate", r, "image_url", IF r.ok THEN JStr(r.val) ELSE None)
    /\ ManyUnchanged

ManyFetch ==
    /\ \E i \in RequestIds :
        /\ inflight[i].pc = "fetch"
        /\ LET r == fetch_image(inflight[i].input.fetch_reply) IN
           ManyStage(i, "fetch", r, "image", IF r.ok THEN r.val ELSE None)
    /\ ManyUnchanged

ManyPixelate ==
    /\ \E i \in RequestIds :
        /\ inflight[i].pc = "pixelate"
        /\ LET r == pixelate_image(frames[Frame(i)].image,
                                   inflight[i].params.pixel_size) IN
           ManyStage(i, "pixelate", r, "pixelated", IF r.ok THEN r.val.result ELSE None)
    /\ ManyUnchanged

ManyReduce ==
    /\ \E i \in RequestIds :
        /\ inflight[i].pc = "reduce"
        /\ LET r == reduce_colors(frames[Frame(i)].pixelated,
                                  inflight[i].params.num_colors,
                                  inflight[i].input.palette) IN
           ManyStage(i, "reduce", r, "final_image", IF r.ok THEN r.val ELSE None)
    /\ ManyUnchanged

ManyEncode ==
    /\ \E i \in RequestIds :
        /\ inflight[i].pc = "encode"
        /\ frames' = [frames EXCEPT ![Frame(i)].png =
                                        EncodePNG(frames[Frame(i)].final_image)]
        /\ Goto(i, After("encode"))
    /\ ManyUnchanged

ManyRespond ==
    /\ \E i \in RequestIds :
        /\ inflight[i].pc = "respond"
        /\ Answer(i, JsonSuccess(DataUri(frames[Frame(i)].png)))
    /\ UNCHANGED frames
    /\ ManyUnchanged

NextMany ==
    \/ ManyAuth
    \/ ManyValidate
    \/ ManyConstruct
    \/ ManyGenerate
    \/ ManyFetch
    \/ ManyPixelate
    \/ ManyReduce
    \/ ManyEncode
    \/ ManyRespond

SpecMany == InitMany /\ [][NextMany]_vars

\* the response a request gets when it runs alone: the decorator, the handler
\* and process_image executed one statement after the other
Alone(inp, files, env) ==
    LET a == Decorated(inp, env)
        r == ReadParams(inp.body)
        p == get_image_processor(files, env)
        g == generate_image(inp.generate_reply)
        f == fetch_image(inp.fetch_reply)
        px == pixelate_image(f.val, r.val.pixel_size)
        rc == reduce_colors(px.val.result, r.val.num_colors, inp.palette)
    IN  IF ~a.ok THEN a.response
        ELSE IF inp.method = "OPTIONS" THEN JsonOptions
        ELSE IF ~r.ok THEN HandlerExcept(r.exc)
        ELSE IF Validate(r.val) # None THEN Validate(r.val)
        ELSE IF ~p.ok THEN ProcessExcept(p.exc)
        ELSE IF ~g.ok THEN ProcessExcept(g.exc)
        ELSE IF ~f.ok THEN ProcessExcept(f.exc)
        ELSE IF ~px.ok THEN ProcessExcept(px.exc)
        ELSE IF ~rc.ok THEN ProcessExcept(rc.exc)
        ELSE JsonSuccess(DataUri(EncodePNG(rc.val)))

\* C14: concurrent requests share no mutable state: under any interleaving of
\* the steps of the requests, the response of each request equals the
\* response it gets when it runs alone with the same inputs and the same
\* upstream replies, whatever the other requests do or fail at.
C14_ResponsesIndependent ==
    \A i \in DOMAIN inflight :
        inflight[i].pc = "done" =>
            inflight[i].response = Alone(inflight[i].input, run_secrets, environ)

\* a request was answered 200 while another one, which failed at the fetch,
\* was answered 500
C14_Witness ==
    \E i, j \in DOMAIN inflight :
        /\ inflight[i].pc = "done" /\ inflight[i].response.status = 200
        /\ inflight[i].response.image_data # None
        /\ inflight[j].pc = "done" /\ inflight[j].response.status = 500
        /\ inflight[j].input.fetch_reply.kind = "error"

----------------------------------------------------------------------------
(* Pixelation selects pixels: src/src/utils.py *)

\* pixelate_image(image, pixel_size) has returned, pixel_size >= 1
Pixelated ==
    /\ pc \in {"lib_done", "lib_twice"}
    /\ params.op = "pixelate_image"
    /\ params.pixel_size >= 1

\* C15: for every image and every pixel_size >= 1, every pixel of
\* pixelate_image(img, p) equals some pixel of img, pixelate_image applied to
\* its own result with the same p returns that result pixel for pixel, and
\* pixelate_image(img, 1) equals img.
C15_PixelationIdempotent ==
    Pixelated =>
        /\ raised = None
        /\ PixelSet(pixelated) \subseteq PixelSet(image)
        /\ params.pixel_size = 1 => pixelated = image
        /\ pc = "lib_twice" => final_image = pixelated

\* a pixelation that changed the image was applied a second time: the
\* intermediate size is neither 1 nor a divisor of the width
C15_Witness ==
    /\ Pixelated /\ pc = "lib_twice"
    /\ pixelated # image
    /\ smaller_image.width = 2 /\ image.width = 5
    /\ final_image = pixelated

====
